---------------------------- MODULE Spec2Model ----------------------------
(***************************************************************************)
(* PropWise multi-property investment analyzer                             *)
(* (src/real_estate_multi_app_ai.py).                                      *)
(*                                                                         *)
(* The Streamlit script is re-executed from top to bottom on every user    *)
(* interaction.  st.session_state.properties is the only state that        *)
(* survives a re-execution; everything else is a module-level variable of  *)
(* one execution.  One execution is one action of this model.              *)
(*                                                                         *)
(* Python floats are modelled as exact rationals <<numerator, denominator>> *)
(* in lowest terms with a positive denominator.  The amounts of the form   *)
(* are scaled down from the widget defaults (a price of 120 for 200000, an *)
(* interest of 1200 % for 6.5 %, a term of 1 year for 30) so that every    *)
(* intermediate value is an exact fraction of machine integers.  A float   *)
(* division by zero raises ZeroDivisionError in Python, it never yields    *)
(* inf or nan.                                                             *)
(***************************************************************************)
EXTENDS Integers, Sequences, FiniteSets

VARIABLES
    properties,       \* st.session_state.properties
    button,           \* what st.sidebar.button returned in the last execution
    view,             \* what the last execution rendered
    exc,              \* the uncaught exception that ended the last execution
    comparison_data,  \* the list the loop of the last execution built
    df,               \* the DataFrame of the last execution (<<>> when never built)
    g,                \* the module-level variables the loop body assigns
    call              \* the last direct call of one of the helper functions

vars == <<properties, button, view, exc, comparison_data, df, g, call>>

(***************************************************************************)
(* Bounds                                                                  *)
(***************************************************************************)
MaxProps == 3        \* submissions per session
MaxRoiHalves == 24   \* ROI arguments of the classifier range over -12.0 .. 12.0 in halves
MaxMoneyHalves == 2  \* cash-flow and flip-profit arguments, in halves
MaxSqFt == 6         \* square-footage arguments of the rent estimator: -MaxSqFt .. MaxSqFt

(***************************************************************************)
(* Exact rational arithmetic                                               *)
(***************************************************************************)
Abs(n) == IF n < 0 THEN -n ELSE n

RECURSIVE GCD(_, _)
GCD(a, b) == IF b = 0 THEN a ELSE GCD(b, a % b)

Norm(n, d) ==
    LET s == IF d < 0 THEN -1 ELSE 1
        k == GCD(Abs(n), Abs(d))
    IN  <<(s * n) \div k, (s * d) \div k>>

I(n) == <<n, 1>>
Zero == I(0)
RAdd(a, b) ==
    LET k == GCD(a[2], b[2])
    IN  Norm(a[1] * (b[2] \div k) + b[1] * (a[2] \div k), (a[2] \div k) * b[2])
RNeg(a) == <<-a[1], a[2]>>
RSub(a, b) == RAdd(a, RNeg(b))
RMul(a, b) ==
    LET x == Norm(a[1], b[2])
        y == Norm(b[1], a[2])
    IN  Norm(x[1] * y[1], x[2] * y[2])
RInv(a) == Norm(a[2], a[1])
RDiv(a, b) == RMul(a, RInv(b))
RLt(a, b) == a[1] * b[2] < b[1] * a[2]
RLe(a, b) == a[1] * b[2] <= b[1] * a[2]

RECURSIVE IntPow(_, _)
IntPow(n, k) == IF k = 0 THEN 1 ELSE n * IntPow(n, k - 1)

\* float ** int
PowRaises(b, k) == b[1] = 0 /\ k < 0
RPow(b, k) ==
    IF k >= 0 THEN <<IntPow(b[1], k), IntPow(b[2], k)>>
    ELSE RInv(<<IntPow(b[1], -k), IntPow(b[2], -k)>>)

\* the element of a one-element set: binds an intermediate value once
Only(S) == CHOOSE x \in S : TRUE

\* round(x, 2) and the format spec .2f: nearest hundredth, ties to even
Round2(x) ==
    LET n == x[1] * 100
        q == n \div x[2]
        r == n % x[2]
        up == \/ 2 * r > x[2]
              \/ (2 * r = x[2] /\ q % 2 = 1)
    IN  Norm(IF up THEN q + 1 ELSE q, 100)


(***************************************************************************)
(* Sidebar form (lines 19-39).  number_input has no min_value, so zero and *)
(* negative numbers can be entered; the slider is limited to 0..20.        *)
(***************************************************************************)
DefaultForm ==
    [name |-> "Property A", address |-> "123 Main St", zip_code |-> "12345",
     image_url |-> "", sqft |-> 5, price |-> 120, down |-> 24,
     interest |-> 1200, loan_term |-> 1, tax |-> 12, insurance |-> 12,
     maint |-> 1, vacancy |-> 5, rent_est |-> 130, appreciation |-> 0,
     hold |-> 1, rehab |-> 10, resale |-> 150]

Forms ==
    { DefaultForm,
      [DefaultForm EXCEPT !.name = "Property B", !.address = "9 Oak Ave",
                          !.zip_code = "54321", !.image_url = "b.png",
                          !.vacancy = 20, !.resale = 100],
      [DefaultForm EXCEPT !.zip_code = "54321", !.appreciation = 100,
                          !.hold = 2, !.down = 120],
      [DefaultForm EXCEPT !.name = "Zero rate", !.interest = 0],
      [DefaultForm EXCEPT !.name = "Zero rate", !.interest = 0,
                          !.down = 0, !.maint = 0],
      [DefaultForm EXCEPT !.name = "Nothing invested", !.down = 0, !.maint = 0],
      [DefaultForm EXCEPT !.name = "Written off", !.appreciation = -100,
                          !.hold = -1],
      [DefaultForm EXCEPT !.name = "Negative term", !.loan_term = -1],
      [DefaultForm EXCEPT !.name = "Negative area", !.sqft = -5],
      [DefaultForm EXCEPT !.name = "Over paid", !.down = 130],
      [DefaultForm EXCEPT !.name = "Loss", !.rent_est = 60, !.resale = 120] }

\* the dict literal of lines 42-61
PropertyRecord(f) ==
    [Name |-> f.name, Address |-> f.address, ZIP |-> f.zip_code,
     Image |-> f.image_url, SqFt |-> f.sqft, Price |-> f.price,
     Down |-> f.down, Interest |-> f.interest, LoanTerm |-> f.loan_term,
     Tax |-> f.tax, Insurance |-> f.insurance, Maint |-> f.maint,
     Vacancy |-> Norm(f.vacancy, 100), Rent |-> f.rent_est,
     Appreciation |-> f.appreciation, Hold |-> f.hold, Rehab |-> f.rehab,
     Resale |-> f.resale]

(***************************************************************************)
(* AI-powered suggestions (lines 66-85)                                    *)
(***************************************************************************)
low_rate == <<11, 10>>
high_rate == <<13, 10>>

\* variant: a per-ZIP rate, as the unused parameter invites
smart_rent_estimate_by_zip(sqft, zip_code) ==
    IF zip_code = "54321"
    THEN <<RMul(sqft, <<12, 10>>), RMul(sqft, <<14, 10>>)>>
    ELSE <<RMul(sqft, low_rate), RMul(sqft, high_rate)>>

smart_rent_estimate(sqft, zip_code) ==
    <<RMul(sqft, low_rate), RMul(sqft, high_rate)>>

\* the fourth label is spelled with an em dash in the source
Labels == {"Best as a Rental", "Good for Flipping", "Bad Buy",
           "Depends - Evaluate Further"}

\* variant: the second and third branch in the other order
investment_type_recommendation_bad_buy_first(roi, cash_flow, flip_profit) ==
    IF RLe(I(10), roi) /\ RLt(Zero, cash_flow) THEN "Best as a Rental"
    ELSE IF RLt(roi, I(5)) /\ RLt(cash_flow, Zero) THEN "Bad Buy"
    ELSE IF RLt(Zero, flip_profit) /\ RLt(roi, I(10)) THEN "Good for Flipping"
    ELSE "Depends - Evaluate Further"

investment_type_recommendation(roi, cash_flow, flip_profit) ==
    IF RLe(I(10), roi) /\ RLt(Zero, cash_flow) THEN "Best as a Rental"
    ELSE IF RLt(Zero, flip_profit) /\ RLt(roi, I(10)) THEN "Good for Flipping"
    ELSE IF RLt(roi, I(5)) /\ RLt(cash_flow, Zero) THEN "Bad Buy"
    ELSE "Depends - Evaluate Further"

\* the values the f-string interpolates, as formatted
smart_summary(name, roi, annual_cf, net_rent) ==
    <<name, Round2(annual_cf), Round2(roi), Round2(net_rent)>>

(***************************************************************************)
(* Display and comparison (lines 90-161)                                   *)
(***************************************************************************)
Unbound == <<>>   \* a module-level name no statement has assigned yet

NoGlobals ==
    [loan_amt |-> Unbound, monthly_interest |-> Unbound, months |-> Unbound,
     mortgage |-> Unbound, tax_m |-> Unbound, ins_m |-> Unbound,
     total_monthly |-> Unbound, net_rent |-> Unbound, cash_flow |-> Unbound,
     annual_cf |-> Unbound, future_value |-> Unbound,
     appreciation_gain |-> Unbound, total_invested |-> Unbound,
     roi |-> Unbound, flip_profit |-> Unbound, rent_low |-> Unbound,
     rent_high |-> Unbound, invest_recommend |-> "Unbound", prop |-> Unbound]

\* the dict appended at lines 115-129
ComparisonRow(prop, v) ==
    [Name |-> prop.Name, Address |-> prop.Address, ZIP |-> prop.ZIP,
     Image |-> prop.Image,
     MonthlyCost |-> Round2(v.total_monthly),
     NetRent |-> Round2(v.net_rent),
     CashFlow |-> Round2(v.cash_flow),
     AnnualProfit |-> Round2(v.annual_cf),
     ROI |-> Round2(v.roi),
     FlipProfit |-> Round2(v.flip_profit),
     RentRange |-> <<Round2(v.rent_low), Round2(v.rent_high)>>,
     InvestmentType |-> v.invest_recommend,
     Summary |-> smart_summary(prop.Name, v.roi, v.annual_cf, v.net_rent)]

\* lines 94-97: the amortization formula; the division raises when
\* (1 + monthly_interest)**months = 1
Mortgage(prop, g0) ==
    LET loan_amt == I(prop.Price - prop.Down)
        monthly_interest == RDiv(RDiv(I(prop.Interest), I(12)), I(100))
        months == prop.LoanTerm * 12
        g1 == [g0 EXCEPT !.prop = prop, !.loan_amt = loan_amt,
                         !.monthly_interest = monthly_interest,
                         !.months = I(months)]
        base == RAdd(I(1), monthly_interest)
    IN  IF PowRaises(base, months) THEN [exc |-> "ZeroDivisionError", g |-> g1]
        ELSE LET pow == RPow(base, months)
                 den == RSub(pow, I(1))
             IN  IF den = Zero THEN [exc |-> "ZeroDivisionError", g |-> g1]
                 ELSE [exc |-> "None",
                       g |-> [g1 EXCEPT !.mortgage =
                                RDiv(RMul(loan_amt, RMul(monthly_interest, pow)), den)]]

\* variant: total_monthly accumulated over the iterations (+= for =)
CashFlowCarried(prop, g0) ==
    LET tax_m == RDiv(I(prop.Tax), I(12))
        ins_m == RDiv(I(prop.Insurance), I(12))
        before == IF g0.total_monthly = Unbound THEN Zero ELSE g0.total_monthly
        total_monthly ==
            RAdd(before, RAdd(RAdd(RAdd(g0.mortgage, tax_m), ins_m), I(prop.Maint)))
        net_rent == RMul(I(prop.Rent), RSub(I(1), prop.Vacancy))
        cash_flow == RSub(net_rent, total_monthly)
        annual_cf == RMul(cash_flow, I(12))
    IN  [g0 EXCEPT !.tax_m = tax_m, !.ins_m = ins_m,
                   !.total_monthly = total_monthly, !.net_rent = net_rent,
                   !.cash_flow = cash_flow, !.annual_cf = annual_cf]

\* variant: the annual tax taken as a monthly cost
CashFlowAnnualTax(prop, g0) ==
    LET tax_m == I(prop.Tax)
        ins_m == RDiv(I(prop.Insurance), I(12))
        total_monthly == RAdd(RAdd(RAdd(g0.mortgage, tax_m), ins_m), I(prop.Maint))
        net_rent == RMul(I(prop.Rent), RSub(I(1), prop.Vacancy))
        cash_flow == RSub(net_rent, total_monthly)
        annual_cf == RMul(cash_flow, I(12))
    IN  [g0 EXCEPT !.tax_m = tax_m, !.ins_m = ins_m,
                   !.total_monthly = total_monthly, !.net_rent = net_rent,
                   !.cash_flow = cash_flow, !.annual_cf = annual_cf]

\* lines 98-103
CashFlow(prop, g0) ==
    LET tax_m == RDiv(I(prop.Tax), I(12))
        ins_m == RDiv(I(prop.Insurance), I(12))
        total_monthly == RAdd(RAdd(RAdd(g0.mortgage, tax_m), ins_m), I(prop.Maint))
        net_rent == RMul(I(prop.Rent), RSub(I(1), prop.Vacancy))
        cash_flow == RSub(net_rent, total_monthly)
        annual_cf == RMul(cash_flow, I(12))
    IN  [g0 EXCEPT !.tax_m = tax_m, !.ins_m = ins_m,
                   !.total_monthly = total_monthly, !.net_rent = net_rent,
                   !.cash_flow = cash_flow, !.annual_cf = annual_cf]

\* lines 104-108: 0.0 ** negative raises, and so does the division by a
\* total_invested of 0
ReturnMetrics(prop, g0) ==
    LET base == RAdd(I(1), RDiv(I(prop.Appreciation), I(100)))
    IN  IF PowRaises(base, prop.Hold) THEN [exc |-> "ZeroDivisionError", g |-> g0]
        ELSE
        LET future_value == RMul(I(prop.Price), RPow(base, prop.Hold))
            appreciation_gain == RSub(future_value, I(prop.Price))
            total_invested == I(prop.Down + (prop.Maint * 12 * prop.Hold))
            g1 == [g0 EXCEPT !.future_value = future_value,
                             !.appreciation_gain = appreciation_gain,
                             !.total_invested = total_invested]
        IN  IF total_invested = Zero THEN [exc |-> "ZeroDivisionError", g |-> g1]
            ELSE [exc |-> "None",
                  g |-> [g1 EXCEPT
                     !.roi = RMul(RDiv(RAdd(RMul(g0.annual_cf, I(prop.Hold)),
                                            appreciation_gain),
                                       total_invested), I(100)),
                     !.flip_profit = I(prop.Resale - prop.Price - prop.Rehab)]]

\* lines 98-108
Metrics(prop, gm) ==
    \* gm: the variables after line 97
    Only({ ReturnMetrics(prop, g0) : g0 \in {CashFlow(prop, gm)} })

\* lines 111-112
Suggestions(prop, g0) ==
    LET est == smart_rent_estimate(I(prop.SqFt), prop.ZIP)
    IN  [g0 EXCEPT !.rent_low = est[1], !.rent_high = est[2],
                   !.invest_recommend =
                       investment_type_recommendation(g0.roi, g0.cash_flow,
                                                      g0.flip_profit)]

\* one iteration of the for loop (lines 94-129)
LoopBody(prop, g0) ==
    Only({ IF m.exc # "None" THEN [exc |-> m.exc, g |-> m.g, rows |-> <<>>]
           ELSE Only({ IF r.exc # "None"
                       THEN [exc |-> r.exc, g |-> r.g, rows |-> <<>>]
                       ELSE Only({ [exc |-> "None", g |-> v,
                                    rows |-> <<ComparisonRow(prop, v)>>]
                                   : v \in {Suggestions(prop, r.g)} })
                       : r \in {Metrics(prop, m.g)} })
           : m \in {Mortgage(prop, g0)} })

\* variant: insert(0, ...) for append
RECURSIVE ComparisonLoopPrepend(_, _, _, _)
ComparisonLoopPrepend(props, i, data, g0) ==
    IF i > Len(props) THEN [exc |-> "None", data |-> data, g |-> g0]
    ELSE Only({ IF b.exc # "None" THEN [exc |-> b.exc, data |-> data, g |-> b.g]
                ELSE ComparisonLoopPrepend(props, i + 1, b.rows \o data, b.g)
                : b \in {LoopBody(props[i], g0)} })

\* the for loop (lines 92-129): an exception leaves the loop and the script
RECURSIVE ComparisonLoop(_, _, _, _)
ComparisonLoop(props, i, data, g0) ==
    IF i > Len(props) THEN [exc |-> "None", data |-> data, g |-> g0]
    ELSE Only({ IF b.exc # "None" THEN [exc |-> b.exc, data |-> data, g |-> b.g]
                ELSE ComparisonLoop(props, i + 1, data \o b.rows, b.g)
                : b \in {LoopBody(props[i], g0)} })

\* one execution of lines 90-161
Script(props) ==
    IF props = <<>>
    THEN [view |-> "warning", exc |-> "None", data |-> <<>>, df |-> <<>>,
          g |-> NoGlobals]
    ELSE Only({ IF run.exc # "None"
                THEN [view |-> "exception", exc |-> run.exc, data |-> run.data,
                      df |-> <<>>, g |-> run.g]
                ELSE [view |-> "comparison", exc |-> "None", data |-> run.data,
                      df |-> run.data, g |-> run.g]
                : run \in {ComparisonLoop(props, 1, <<>>, NoGlobals)} })

Execute(props) ==
    \E s \in {Script(props)} :
        /\ view' = s.view
        /\ exc' = s.exc
        /\ comparison_data' = s.data
        /\ df' = s.df
        /\ g' = s.g

(***************************************************************************)
(* The session                                                             *)
(***************************************************************************)
NoCall == [fn |-> "none", args |-> <<>>, returned |-> FALSE, ret |-> Unbound]

Init ==
    /\ properties = <<>>
    /\ button = FALSE
    /\ view = "warning"
    /\ exc = "None"
    /\ comparison_data = <<>>
    /\ df = <<>>
    /\ g = NoGlobals
    /\ call = NoCall

\* variant: a record whose Name and Address are already listed is dropped
AddPropertyUnique(f) ==
    /\ Len(properties) < MaxProps
    /\ button' = TRUE
    /\ properties' =
         IF \E i \in 1..Len(properties) :
                /\ properties[i].Name = f.name
                /\ properties[i].Address = f.address
         THEN properties
         ELSE Append(properties, PropertyRecord(f))
    /\ Execute(properties')
    /\ UNCHANGED call

\* "Add Property" pressed with the form holding f (lines 41-61), then the
\* rest of the script
AddProperty(f) ==
    /\ Len(properties) < MaxProps
    /\ button' = TRUE
    /\ properties' = Append(properties, PropertyRecord(f))
    /\ Execute(properties')
    /\ UNCHANGED call

\* any other interaction: the script runs again without the button set
Rerun ==
    /\ button' = FALSE
    /\ UNCHANGED properties
    /\ Execute(properties)
    /\ UNCHANGED call

Next ==
    \/ \E f \in Forms : AddProperty(f)
    \/ Rerun

Spec == Init /\ [][Next]_vars

(***************************************************************************)
(* The helper functions on their own: the arguments are drawn first, then  *)
(* the function is applied to them.                                        *)
(***************************************************************************)
Halves(m) == { Norm(n, 2) : n \in -m..m }
ZipCodes == {"12345", "54321", ""}

RecommendationCalls ==
    { [fn |-> "investment_type_recommendation", args |-> <<roi, cf, fp>>,
       returned |-> FALSE, ret |-> Unbound] :
      roi \in Halves(MaxRoiHalves), cf \in Halves(MaxMoneyHalves),
      fp \in Halves(MaxMoneyHalves) }

RentEstimateCalls ==
    { [fn |-> "smart_rent_estimate", args |-> <<I(n), z>>, returned |-> FALSE, ret |-> Unbound] :
      n \in -MaxSqFt..MaxSqFt, z \in ZipCodes }

FnInit ==
    /\ properties = <<>>
    /\ button = FALSE
    /\ view = "warning"
    /\ exc = "None"
    /\ comparison_data = <<>>
    /\ df = <<>>
    /\ g = NoGlobals
    /\ call \in RecommendationCalls \cup RentEstimateCalls

Recommend ==
    /\ call.fn = "investment_type_recommendation"
    /\ ~call.returned
    /\ call' = [call EXCEPT !.returned = TRUE, !.ret =
                   investment_type_recommendation(call.args[1], call.args[2],
                                                  call.args[3])]
    /\ UNCHANGED <<properties, button, view, exc, comparison_data, df, g>>

EstimateRent ==
    /\ call.fn = "smart_rent_estimate"
    /\ ~call.returned
    /\ call' = [call EXCEPT !.returned = TRUE,
                          !.ret = smart_rent_estimate(call.args[1], call.args[2])]
    /\ UNCHANGED <<properties, button, view, exc, comparison_data, df, g>>

FnNext == Recommend \/ EstimateRent

FnSpec == FnInit /\ [][FnNext]_vars

(***************************************************************************)
(* Properties                                                              *)
(***************************************************************************)
\* the record analysed in a collection of its own
Alone(p) == Script(<<p>>)
TotalInvestedOf(p) == p.Down + (p.Maint * 12 * p.Hold)
StructurallyValid(p) == p.LoanTerm > 0 /\ p.SqFt >= 0 /\ p.Down <= p.Price

\* C1: investment_type_recommendation returns exactly one of the four labels,
\* chosen by first match: ROI >= 10 and cash flow > 0 gives "Best as a
\* Rental"; else flip profit > 0 and ROI < 10 gives "Good for Flipping"; else
\* ROI < 5 and cash flow < 0 gives "Bad Buy"; else "Depends".  ROI 10 with
\* cash flow 0 is not a rental, ROI 5 with negative cash flow is not a bad
\* buy, and positive flip profit with ROI < 5 and negative cash flow is
\* "Good for Flipping".
C1_DecisionTable ==
    (call.fn = "investment_type_recommendation" /\ call.returned) =>
        LET roi == call.args[1]
            cf == call.args[2]
            fp == call.args[3]
            rental == roi[1] >= 10 * roi[2] /\ cf[1] > 0
            flip == fp[1] > 0 /\ roi[1] < 10 * roi[2]
            bad == roi[1] < 5 * roi[2] /\ cf[1] < 0
        IN  /\ call.ret \in Labels
            /\ rental => call.ret = "Best as a Rental"
            /\ (~rental /\ flip) => call.ret = "Good for Flipping"
            /\ (~rental /\ ~flip /\ bad) => call.ret = "Bad Buy"
            /\ (~rental /\ ~flip /\ ~bad) => call.ret = "Depends - Evaluate Further"
            /\ (roi = I(10) /\ cf = Zero) => call.ret # "Best as a Rental"
            /\ (roi = I(5) /\ cf[1] < 0) => call.ret # "Bad Buy"
            /\ (fp[1] > 0 /\ roi[1] < 5 * roi[2] /\ cf[1] < 0)
                   => call.ret = "Good for Flipping"

C1_Witness ==
    /\ call.fn = "investment_type_recommendation"
    /\ call.returned
    /\ call.args = <<I(4), I(-1), I(1)>>
    /\ call.ret = "Good for Flipping"

\* C2: when one property of the collection fails to analyze, the run still
\* produces a valid result for every other property, at its position, with
\* the count preserved, and is not aborted as a whole.
C2_FailureIsolated ==
    \A k \in 1..Len(properties) :
        Alone(properties[k]).exc # "None" =>
            /\ view = "comparison"
            /\ Len(df) = Len(properties)
            /\ \A i \in 1..Len(properties) :
                   Alone(properties[i]).exc = "None" =>
                       df[i] = Alone(properties[i]).df[1]

\* C3: for a property whose interest rate is 0 the mortgage payment is
\* principal / (LoanTerm * 12), principal = Price - Down, and nothing is raised.
C3_ZeroRatePayment ==
    (view # "warning" /\ g.prop.Interest = 0 /\ g.prop.LoanTerm > 0) =>
        /\ exc = "None"
        /\ g.mortgage = Norm(g.prop.Price - g.prop.Down, g.prop.LoanTerm * 12)

\* C4: for a property whose total invested amount is 0 the analysis fails
\* with the specific ArithmeticDegenerate error, never with a generic one,
\* and stores no result for it.
C4_ArithmeticDegenerate ==
    (view # "warning" /\ TotalInvestedOf(g.prop) = 0) =>
        /\ exc = "ArithmeticDegenerate"
        /\ Len(comparison_data) < Len(properties)

\* C5: for a non-empty collection on which no computation fails, one run
\* produces a result sequence of the same length, and the result at each
\* position carries the Name, Address, ZIP and Image of the property there.
C5_SameLengthSameOrder ==
    (properties # <<>> /\ exc = "None") =>
        /\ view = "comparison"
        /\ Len(df) = Len(properties)
        /\ \A i \in 1..Len(properties) :
               /\ df[i].Name = properties[i].Name
               /\ df[i].Address = properties[i].Address
               /\ df[i].ZIP = properties[i].ZIP
               /\ df[i].Image = properties[i].Image

C5_Witness ==
    /\ exc = "None"
    /\ Len(properties) >= 2
    /\ properties[1].Name # properties[2].Name
    /\ properties[1].Image # properties[2].Image
    /\ df[2].Name = properties[2].Name

\* C6: across submissions and reruns the collection only grows by appending
\* the submitted record at the end: every record keeps its position and its
\* field values, none is removed, and a submission whose Name and Address
\* equal those of an existing record is appended all the same.
C6_AppendOnly ==
    [][/\ Len(properties') >= Len(properties)
       /\ SubSeq(properties', 1, Len(properties)) = properties
       /\ button' => /\ Len(properties') = Len(properties) + 1
                     /\ \E f \in Forms :
                            properties'[Len(properties')] = PropertyRecord(f)
       /\ ~button' => properties' = properties]_vars

C6_Witness ==
    /\ button
    /\ Len(properties) >= 2
    /\ properties[1].Name = properties[2].Name
    /\ properties[1].Address = properties[2].Address

\* C7: a submitted property that violates a structural precondition (loan
\* term not positive, square footage negative, Down greater than Price) is
\* rejected before any metric is computed; no analysis result is produced
\* from such a record.
C7_InvalidInputRejected ==
    \A i \in 1..Len(comparison_data) : StructurallyValid(properties[i])

\* C8: the analysis result of a property is determined by its own fields
\* alone: every result the loop computes is the one the record gets in a
\* collection of its own, whatever its position and whatever the other
\* records, and a later run gives the results of the earlier one again.
C8_OwnFieldsOnly ==
    [][/\ \A i \in 1..Len(comparison_data') :
              \E a \in {Alone(properties'[i])} :
                  /\ a.exc = "None"
                  /\ comparison_data'[i] = a.df[1]
       /\ \A i \in 1..Len(comparison_data) :
              i <= Len(comparison_data') => comparison_data'[i] = comparison_data[i]
      ]_vars

C8_Witness ==
    /\ Len(properties) >= 3
    /\ view = "comparison"
    /\ properties[1] = properties[3]
    /\ properties[2] # properties[1]
    /\ df[1] = df[3]
    /\ df[2] # df[1]

\* C9: monthly cost = mortgage payment + Tax/12 + Insurance/12 + Maint; net
\* monthly rent = Rent * (1 - Vacancy); monthly cash flow = net monthly rent
\* - monthly cost; annual cash flow = monthly cash flow * 12; flip profit =
\* Resale - Price - Rehab, whatever the financing and holding-cost fields.
C9_MetricIdentities ==
    (view # "warning" /\ exc = "None") =>
        LET p == g.prop
        IN  /\ p = properties[Len(properties)]
            /\ g.total_monthly =
                   RAdd(RAdd(RAdd(g.mortgage, Norm(p.Tax, 12)),
                             Norm(p.Insurance, 12)), I(p.Maint))
            /\ g.net_rent = RMul(I(p.Rent), RSub(I(1), p.Vacancy))
            /\ g.cash_flow = RSub(g.net_rent, g.total_monthly)
            /\ g.annual_cf = RMul(g.cash_flow, I(12))
            /\ g.flip_profit = I(p.Resale - p.Price - p.Rehab)
            /\ \A i \in 1..Len(df) :
                   df[i].FlipProfit =
                       I(properties[i].Resale - properties[i].Price
                         - properties[i].Rehab)

C9_Witness ==
    /\ view = "comparison"
    /\ Len(properties) >= 2
    /\ g.prop.Vacancy # Zero
    /\ g.prop.Rent # properties[1].Rent
    /\ g.cash_flow[1] < 0
    /\ g.flip_profit = I(g.prop.Resale - g.prop.Price - g.prop.Rehab)

\* C10: smart_rent_estimate returns (SqFt * 1.10, SqFt * 1.30) for every
\* input, so the ZIP code does not change the range, and for non-negative
\* square footage the low bound does not exceed the high bound.
C10_RentRange ==
    (call.fn = "smart_rent_estimate" /\ call.returned) =>
        LET sqft == call.args[1]
            low == call.ret[1]
            high == call.ret[2]
        IN  /\ low[1] * 10 * sqft[2] = 11 * sqft[1] * low[2]
            /\ high[1] * 10 * sqft[2] = 13 * sqft[1] * high[2]
            /\ sqft[1] >= 0 => low[1] * high[2] <= high[1] * low[2]

C10_Witness ==
    /\ call.fn = "smart_rent_estimate"
    /\ call.returned
    /\ call.args = <<I(5), "54321">>
    /\ call.ret = <<<<11, 2>>, <<13, 2>>>>

============================================================================
